---- MODULE Spec2Model ----
(***************************************************************************)
(* A model of the password manager: the password policy engine of          *)
(* password_manager.py (generate_password, is_strong_password) and the     *)
(* storage operations of database.py (check_user_exists, register_user,    *)
(* verify_login, save_password_to_db, get_saved_passwords) run by          *)
(* concurrent sessions against one MySQL store.                            *)
(*                                                                         *)
(* A Python str is a sequence of characters; a character is a one-element  *)
(* token ("a", "7", "!", ...).  Characters outside ASCII are written by    *)
(* their code point ("U00E9" is e-acute).                                  *)
(***************************************************************************)
EXTENDS Integers, Sequences, FiniteSets

VARIABLES
    \* generate_password: its arguments, its return value, its st.error report
    length, num_symbols, num_numbers, password, st_error, gen_pc,
    \* is_strong_password: its argument and whether what it returns is truthy
    reg_password, strong,
    \* the store: committed rows of users and passwords, AUTO_INCREMENT, and
    \* the CURRENT_TIMESTAMP of the latest INSERT into passwords
    users, passwords, next_id, now,
    \* the sessions calling the storage operations, and the connections open
    sess, open_conns, calls,
    \* history: successful register_user calls per username
    reg_ok

genVars == <<length, num_symbols, num_numbers, password, st_error, gen_pc>>
strongVars == <<reg_password, strong>>
dbVars == <<users, passwords, next_id, now, sess, open_conns, calls, reg_ok>>
vars == <<genVars, strongVars, dbVars>>

----------------------------------------------------------------------------
(* Bounds of the model *)

\* generate_password is called with length in 0..MaxLength
MaxLength == 9
\* ... and num_symbols in 0..MaxSymbols (num_numbers ranges over 0..MaxLength)
MaxSymbols == 2
\* is_strong_password is applied to "a"*k \o tail, k <= MaxPad, Len(tail) <= MaxTail
MaxPad == 9
MaxTail == 2

----------------------------------------------------------------------------
(* Characters *)

\* representatives of string.ascii_letters, string.punctuation, string.digits
ascii_letters == {"a"}
punctuation == {"!", "_"}
digits == {"7"}

\* characters a user can type that generate_password never draws: a space,
\* a non-ASCII letter (e-acute), a non-ASCII decimal digit (ARABIC-INDIC
\* DIGIT THREE) and a numeric character that is no decimal digit (one half)
Space == " "
NonAsciiLetter == "U00E9"
NonAsciiDigit == "U0663"
NonDigitNumeric == "U00BD"

Chars == ascii_letters \cup punctuation \cup digits
            \cup {Space, NonAsciiLetter, NonAsciiDigit, NonDigitNumeric}

\* Python's str.isalnum(): letters, decimal digits and other numerics of any script
IsAlnum(c) == c \in ascii_letters \cup digits
                    \cup {NonAsciiLetter, NonAsciiDigit, NonDigitNumeric}

\* the regular expression [0-9]
MatchesDigitClass(c) == c \in digits

\* the regular expression \W on a str pattern: not (alphanumeric or underscore)
MatchesNonWord(c) == ~(IsAlnum(c) \/ c = "_")

\* the regular expression [\W_]
MatchesSymbolClass(c) == MatchesNonWord(c) \/ c = "_"

\* re.search(r'[0-9]', s), re.search(r'\W', s), re.search(r'[\W_]', s)
\* find a match
SearchDigitClass(s) == \E i \in DOMAIN s : MatchesDigitClass(s[i])
SearchNonWord(s) == \E i \in DOMAIN s : MatchesNonWord(s[i])
SearchSymbolClass(s) == \E i \in DOMAIN s : MatchesSymbolClass(s[i])

----------------------------------------------------------------------------
(* is_strong_password *)

is_strong_password_underscore_forgotten(p) ==
    /\ Len(p) > 8
    /\ SearchDigitClass(p)
    /\ SearchNonWord(p)

is_strong_password_min_length_inclusive(p) ==
    /\ Len(p) >= 8
    /\ SearchDigitClass(p)
    /\ SearchSymbolClass(p)

\* the truth value of the object is_strong_password returns
is_strong_password(p) ==
    /\ Len(p) > 8
    /\ SearchDigitClass(p)
    /\ SearchSymbolClass(p)

----------------------------------------------------------------------------
(* generate_password *)

NoError == "(no st.error)"
ErrLength == "Password length must be more than 8."
ErrSymbols == "At least one symbol is required."
ErrNumbers == "At least one number is required."
ErrSum == "Sum of symbols and numbers must be less than length."

ReturnNone == [kind |-> "None", chars |-> <<>>]
ReturnStr(s) == [kind |-> "str", chars |-> s]

\* random.choices(population, k=k): every sequence of k draws with replacement
choices(population, k) == [1..k -> population]

RemoveAt(s, i) == SubSeq(s, 1, i - 1) \o SubSeq(s, i + 1, Len(s))

\* random.shuffle(x): every rearrangement of x (the positions of equal
\* elements are not told apart)
RECURSIVE shuffle(_)
shuffle(x) ==
    IF x = <<>> THEN {<<>>}
    ELSE UNION { { <<x[i]>> \o r : r \in shuffle(RemoveAt(x, i)) } :
                 i \in { j \in DOMAIN x : \A k \in 1..(j - 1) : x[k] # x[j] } }

\* lines 26-32: the passwords the draws and the shuffle can produce
Drawn(letters_count, n_symbols, n_numbers) ==
    UNION { shuffle(l \o s \o d) :
            <<l, s, d>> \in choices(ascii_letters, letters_count)
                            \X choices(punctuation, n_symbols)
                            \X choices(digits, n_numbers) }

generate_password_sum_checked_first(len, n_symbols, n_numbers) ==
    IF n_symbols + n_numbers >= len
        THEN {[ret |-> ReturnNone, error |-> ErrSum]}
    ELSE IF len <= 8
        THEN {[ret |-> ReturnNone, error |-> ErrLength]}
    ELSE IF n_symbols < 1
        THEN {[ret |-> ReturnNone, error |-> ErrSymbols]}
    ELSE IF n_numbers < 1
        THEN {[ret |-> ReturnNone, error |-> ErrNumbers]}
    ELSE { [ret |-> ReturnStr(p), error |-> NoError] :
           p \in Drawn(len - n_symbols - n_numbers, n_symbols, n_numbers) }

generate_password_letters_fill_length(len, n_symbols, n_numbers) ==
    IF len <= 8
        THEN {[ret |-> ReturnNone, error |-> ErrLength]}
    ELSE IF n_symbols < 1
        THEN {[ret |-> ReturnNone, error |-> ErrSymbols]}
    ELSE IF n_numbers < 1
        THEN {[ret |-> ReturnNone, error |-> ErrNumbers]}
    ELSE IF n_symbols + n_numbers >= len
        THEN {[ret |-> ReturnNone, error |-> ErrSum]}
    ELSE { [ret |-> ReturnStr(p), error |-> NoError] :
           p \in Drawn(len - n_symbols, n_symbols, n_numbers) }

\* every (return value, st.error report) a call can end with
generate_password(len, n_symbols, n_numbers) ==
    IF len <= 8
        THEN {[ret |-> ReturnNone, error |-> ErrLength]}
    ELSE IF n_symbols < 1
        THEN {[ret |-> ReturnNone, error |-> ErrSymbols]}
    ELSE IF n_numbers < 1
        THEN {[ret |-> ReturnNone, error |-> ErrNumbers]}
    ELSE IF n_symbols + n_numbers >= len
        THEN {[ret |-> ReturnNone, error |-> ErrSum]}
    ELSE { [ret |-> ReturnStr(p), error |-> NoError] :
           p \in Drawn(len - n_symbols - n_numbers, n_symbols, n_numbers) }

----------------------------------------------------------------------------
(* The store and the sessions *)

Sessions == {"s1", "s2"}
Usernames == {"alice", "bob"}
PlainPasswords == {"pw1", "pw2"}
Notes == {"email", "bank"}
GeneratedPassword == "P@ss1234"

\* the storage operations are called at most MaxCalls times in all
MaxCalls == 4

\* hashlib.sha256(password.encode()).hexdigest()
hash_password(p) == <<"sha256", p>>

NoRow == [id |-> 0, username |-> "", password_hash |-> <<>>]

\* what a call has returned: None, True, False, an int, a list, or nothing yet
Pending == [kind |-> "pending", val |-> <<>>]
RetNone == [kind |-> "None", val |-> <<>>]
RetTrue == [kind |-> "True", val |-> <<>>]
RetFalse == [kind |-> "False", val |-> <<>>]
RetInt(i) == [kind |-> "int", val |-> <<i>>]
RetList(l) == [kind |-> "list", val |-> l]

IdleSession ==
    [pc |-> "idle", op |-> "none", username |-> "", password |-> "",
     user_id |-> 0, account_note |-> "", row |-> NoRow, ret |-> Pending,
     conns |-> 0, stmts |-> 0]

DbInit ==
    /\ users = {}
    /\ passwords = <<>>
    /\ next_id = 1
    /\ now = 0
    /\ sess = [s \in Sessions |-> IdleSession]
    /\ open_conns = 0
    /\ calls = 0
    /\ reg_ok = [u \in Usernames |-> 0]

\* the rows of users, committed or inserted by a transaction still open
AllUserRows == users \cup { sess[s].row : s \in { t \in Sessions : sess[t].row # NoRow } }

\* SELECT id FROM users WHERE username = %s
SelectUser(username) == { r \in users : r.username = username }

\* SELECT id FROM users WHERE username = %s AND password_hash = %s
SelectLogin(username, pwd_hash) ==
    { r \in users : r.username = username /\ r.password_hash = pwd_hash }

\* username VARCHAR(255) UNIQUE: the INSERT is refused
DuplicateUsername_not_enforced(username) == FALSE

DuplicateUsername(username) == \E r \in users : r.username = username

\* the INSERT waits for the open transaction that inserted the same username
LockedBy(s, username) ==
    \E t \in Sessions \ {s} : sess[t].row # NoRow /\ sess[t].row.username = username

\* a row of passwords as get_saved_passwords selects it
Selected(r) == <<r.account_note, r.password_value, r.created_at>>

IsDescending(q) == \A i, j \in DOMAIN q : i < j => q[i].created_at >= q[j].created_at
IsAscending(q) == \A i, j \in DOMAIN q : i < j => q[i].created_at <= q[j].created_at

RowsOf(user_id) ==
    { passwords[i] : i \in { j \in DOMAIN passwords : passwords[j].user_id = user_id } }

Orders(rows) ==
    { q \in [1..Cardinality(rows) -> rows] : \A i, j \in DOMAIN q : i # j => q[i] # q[j] }

\* SELECT account_note, password_value, created_at FROM passwords
\* WHERE user_id = %s ORDER BY created_at DESC: every result the server may
\* give (rows with equal created_at come in any order)
SelectSavedPasswords(user_id) ==
    { [i \in DOMAIN q |-> Selected(q[i])] :
      q \in { o \in Orders(RowsOf(user_id)) : IsDescending(o) } }

\* check_user_exists with the store available: what it returns, and the
\* connections it opened and statements it sent
check_user_exists(username) ==
    [exists |-> SelectUser(username) # {}, conns |-> 1, stmts |-> 1]

verify_login_password_not_compared(username, plaintext) ==
    LET found == SelectUser(username)
    IN { [ret |-> r, conns |-> 1, stmts |-> 1] :
         r \in IF found = {} THEN {RetNone} ELSE { RetInt(u.id) : u \in found } }

verify_login_after_check_user_exists(username, plaintext) ==
    LET found == SelectLogin(username, hash_password(plaintext))
    IN IF ~check_user_exists(username).exists
       THEN {[ret |-> RetNone, conns |-> 1, stmts |-> 1]}
       ELSE { [ret |-> r, conns |-> 2, stmts |-> 2] :
              r \in IF found = {} THEN {RetNone} ELSE { RetInt(u.id) : u \in found } }

\* verify_login with the store available: connect, SELECT, fetchone, close;
\* the id of the row found, or None
verify_login(username, plaintext) ==
    LET found == SelectLogin(username, hash_password(plaintext))
    IN { [ret |-> r, conns |-> 1, stmts |-> 1] :
         r \in IF found = {} THEN {RetNone} ELSE { RetInt(u.id) : u \in found } }

get_saved_passwords_oldest_first(user_id) ==
    { [ret |-> RetList([i \in DOMAIN q |-> Selected(q[i])]), conns |-> 1, stmts |-> 1] :
      q \in { o \in Orders(RowsOf(user_id)) : IsAscending(o) } }

\* get_saved_passwords with the store available: connect, SELECT, fetchall, close
get_saved_passwords(user_id) ==
    { [ret |-> RetList(results), conns |-> 1, stmts |-> 1] :
      results \in SelectSavedPasswords(user_id) }

CanCall(s) ==
    /\ sess[s].pc \in {"idle", "returned", "raised"}
    /\ calls < MaxCalls

Called(s, call) ==
    /\ sess' = [sess EXCEPT ![s] = call]
    /\ calls' = calls + 1

RegisterCall(u, p) ==
    [IdleSession EXCEPT !.op = "register_user", !.username = u, !.password = p]

LoginCall(u, p) ==
    [IdleSession EXCEPT !.op = "verify_login", !.username = u, !.password = p]

SaveCall(user_id, note) ==
    [IdleSession EXCEPT !.op = "save_password_to_db", !.user_id = user_id,
                        !.password = GeneratedPassword, !.account_note = note]

ListCall(user_id) ==
    [IdleSession EXCEPT !.op = "get_saved_passwords", !.user_id = user_id]

\* register_user(username, password), lines 86-87: check_user_exists; False
\* is returned when the username exists, and the INSERT comes next otherwise
Register(s) ==
    /\ CanCall(s)
    /\ \E u \in Usernames, p \in PlainPasswords :
        LET c == check_user_exists(u)
        IN Called(s, [RegisterCall(u, p) EXCEPT
                         !.conns = c.conns, !.stmts = c.stmts,
                         !.pc = IF c.exists THEN "returned" ELSE "insert_user",
                         !.ret = IF c.exists THEN RetFalse ELSE Pending])
    /\ UNCHANGED <<users, passwords, next_id, now, open_conns, reg_ok>>
    /\ UNCHANGED <<genVars, strongVars>>

\* register_user lines 88-96: connect and INSERT; the row is not yet committed
InsertUser(s) ==
    /\ sess[s].pc = "insert_user"
    /\ ~LockedBy(s, sess[s].username)
    /\ ~DuplicateUsername(sess[s].username)
    /\ sess' = [sess EXCEPT
                   ![s].conns = @ + 1, ![s].stmts = @ + 1,
                   ![s].pc = "commit_user",
                   ![s].row = [id |-> next_id, username |-> sess[s].username,
                               password_hash |-> hash_password(sess[s].password)]]
    /\ next_id' = next_id + 1
    /\ open_conns' = open_conns + 1
    /\ UNCHANGED <<users, passwords, now, calls, reg_ok>>
    /\ UNCHANGED <<genVars, strongVars>>

\* register_user lines 93-96 and 101-103: the INSERT is refused by the
\* UNIQUE constraint; the Error is caught, reported, and False returned
\* (conn.close() is not reached)
InsertUserRefused(s) ==
    /\ sess[s].pc = "insert_user"
    /\ ~LockedBy(s, sess[s].username)
    /\ DuplicateUsername(sess[s].username)
    /\ sess' = [sess EXCEPT
                   ![s].conns = @ + 1, ![s].stmts = @ + 1,
                   ![s].pc = "returned", ![s].ret = RetFalse]
    /\ open_conns' = open_conns + 1
    /\ UNCHANGED <<users, passwords, next_id, now, calls, reg_ok>>
    /\ UNCHANGED <<genVars, strongVars>>

\* register_user lines 97-100: commit, close, return True
CommitUser(s) ==
    /\ sess[s].pc = "commit_user"
    /\ users' = users \cup {sess[s].row}
    /\ sess' = [sess EXCEPT
                   ![s].pc = "returned", ![s].ret = RetTrue, ![s].row = NoRow]
    /\ open_conns' = open_conns - 1
    /\ reg_ok' = [reg_ok EXCEPT ![sess[s].username] = @ + 1]
    /\ UNCHANGED <<passwords, next_id, now, calls>>
    /\ UNCHANGED <<genVars, strongVars>>

\* verify_login(username, password)
Login(s) ==
    /\ CanCall(s)
    /\ \E u \in Usernames, p \in PlainPasswords :
        \E out \in verify_login(u, p) :
            Called(s, [LoginCall(u, p) EXCEPT
                          !.conns = out.conns, !.stmts = out.stmts,
                          !.pc = "returned", !.ret = out.ret])
    /\ UNCHANGED <<users, passwords, next_id, now, open_conns, reg_ok>>
    /\ UNCHANGED <<genVars, strongVars>>

\* save_password_to_db(user_id, password_value, account_note), called by a
\* logged-in session (user_id is the id of a registered user): connect, INSERT
\* (created_at defaults to CURRENT_TIMESTAMP: the second of the previous
\* INSERT, or a later one), commit, close
Save(s) ==
    /\ CanCall(s)
    /\ \E r \in users, n \in Notes, t \in {now, now + 1} :
        /\ Called(s, [SaveCall(r.id, n) EXCEPT
                         !.conns = 1, !.stmts = 1,
                         !.pc = "returned", !.ret = RetNone])
        /\ passwords' = Append(passwords,
                               [id |-> Len(passwords) + 1, user_id |-> r.id,
                                account_note |-> n,
                                password_value |-> GeneratedPassword,
                                created_at |-> t])
        /\ now' = t
    /\ UNCHANGED <<users, next_id, open_conns, reg_ok>>
    /\ UNCHANGED <<genVars, strongVars>>

\* get_saved_passwords(user_id), called by a logged-in session
List(s) ==
    /\ CanCall(s)
    /\ \E r \in users :
        \E out \in get_saved_passwords(r.id) :
            Called(s, [ListCall(r.id) EXCEPT
                          !.conns = out.conns, !.stmts = out.stmts,
                          !.pc = "returned", !.ret = out.ret])
    /\ UNCHANGED <<users, passwords, next_id, now, open_conns, reg_ok>>
    /\ UNCHANGED <<genVars, strongVars>>

----------------------------------------------------------------------------
(* Storage failures *)

\* every call a session can make
Calls ==
    { RegisterCall(u, p) : u \in Usernames, p \in PlainPasswords }
    \cup { LoginCall(u, p) : u \in Usernames, p \in PlainPasswords }
    \cup { SaveCall(r.id, n) : r \in users, n \in Notes }
    \cup { ListCall(r.id) : r \in users }

\* create_connection lines 20-22, in the first connection of a call: connect
\* raises Error; it is reported with st.error and None returned.
\* check_user_exists then returns False (line 82) and register_user goes on
\* to its INSERT; the other operations return their default (None, [])
CallConnectFails(s) ==
    /\ CanCall(s)
    /\ \E c \in Calls :
        Called(s, CASE c.op = "register_user" -> [c EXCEPT !.pc = "insert_user"]
                    [] c.op = "get_saved_passwords" ->
                            [c EXCEPT !.pc = "returned", !.ret = RetList(<<>>)]
                    [] OTHER -> [c EXCEPT !.pc = "returned", !.ret = RetNone])
    /\ UNCHANGED <<users, passwords, next_id, now, open_conns, reg_ok>>
    /\ UNCHANGED <<genVars, strongVars>>

\* cursor.execute (or conn.commit in save_password_to_db) raises Error on the
\* first connection of a call: check_user_exists, verify_login,
\* save_password_to_db and get_saved_passwords have no handler, so the
\* exception leaves the operation, and conn.close() is not reached
CallExecuteFails(s) ==
    /\ CanCall(s)
    /\ \E c \in Calls :
        Called(s, [c EXCEPT !.conns = 1, !.stmts = 1, !.pc = "raised"])
    /\ open_conns' = open_conns + 1
    /\ UNCHANGED <<users, passwords, next_id, now, reg_ok>>
    /\ UNCHANGED <<genVars, strongVars>>

\* create_connection fails in register_user line 88: False (line 104)
InsertConnectFails(s) ==
    /\ sess[s].pc = "insert_user"
    /\ sess' = [sess EXCEPT ![s].pc = "returned", ![s].ret = RetFalse]
    /\ UNCHANGED <<users, passwords, next_id, now, open_conns, calls, reg_ok>>
    /\ UNCHANGED <<genVars, strongVars>>

\* the INSERT of register_user raises an Error other than the duplicate key
\* (a lost connection, a lock wait timeout): caught at lines 101-103, False
\* returned, conn.close() not reached
InsertExecuteFails(s) ==
    /\ sess[s].pc = "insert_user"
    /\ sess' = [sess EXCEPT
                   ![s].conns = @ + 1, ![s].stmts = @ + 1,
                   ![s].pc = "returned", ![s].ret = RetFalse]
    /\ open_conns' = open_conns + 1
    /\ UNCHANGED <<users, passwords, next_id, now, calls, reg_ok>>
    /\ UNCHANGED <<genVars, strongVars>>

\* conn.commit() raises Error in register_user: caught, False returned, the
\* connection is left open and the server rolls its transaction back
CommitFails(s) ==
    /\ sess[s].pc = "commit_user"
    /\ sess' = [sess EXCEPT
                   ![s].pc = "returned", ![s].ret = RetFalse, ![s].row = NoRow]
    /\ UNCHANGED <<users, passwords, next_id, now, open_conns, calls, reg_ok>>
    /\ UNCHANGED <<genVars, strongVars>>

----------------------------------------------------------------------------
(* The policy engine at rest *)

GenIdle ==
    /\ length = 0
    /\ num_symbols = 0
    /\ num_numbers = 0
    /\ password = ReturnNone
    /\ st_error = NoError
    /\ gen_pc = "idle"

StrongIdle ==
    /\ reg_password = <<>>
    /\ strong = "unchecked"

----------------------------------------------------------------------------
(* Specification SpecGen: generate_password on every input within bounds *)

InitGen ==
    /\ length \in 0..MaxLength
    /\ num_symbols \in 0..MaxSymbols
    /\ num_numbers \in 0..MaxLength
    /\ password = ReturnNone
    /\ st_error = NoError
    /\ gen_pc = "called"
    /\ StrongIdle
    /\ DbInit

\* password = generate_password(length, num_symbols, num_numbers)
Generate ==
    /\ gen_pc = "called"
    /\ \E out \in generate_password(length, num_symbols, num_numbers) :
        /\ password' = out.ret
        /\ st_error' = out.error
    /\ gen_pc' = "returned"
    /\ UNCHANGED <<length, num_symbols, num_numbers, strongVars, dbVars>>

NextGen == Generate

SpecGen == InitGen /\ [][NextGen]_vars

----------------------------------------------------------------------------
(* Specification SpecStrong: is_strong_password on typed passwords *)

Pad(k) == [i \in 1..k |-> "a"]

Tails == UNION { [1..k -> Chars] : k \in 0..MaxTail }

InitStrong ==
    /\ \E k \in 0..MaxPad, t \in Tails : reg_password = Pad(k) \o t
    /\ strong = "unchecked"
    /\ GenIdle
    /\ DbInit

\* line 98 of main: elif not is_strong_password(reg_password)
CheckStrong ==
    /\ strong = "unchecked"
    /\ strong' = IF is_strong_password(reg_password) THEN "truthy" ELSE "falsy"
    /\ UNCHANGED <<reg_password, genVars, dbVars>>

NextStrong == CheckStrong

SpecStrong == InitStrong /\ [][NextStrong]_vars

----------------------------------------------------------------------------
(* Specification Spec: the storage operations, called by concurrent        *)
(* sessions, with the store available                                      *)

Init ==
    /\ GenIdle
    /\ StrongIdle
    /\ DbInit

\* one step of session s with the store available
Step(s) ==
    \/ Register(s)
    \/ InsertUser(s)
    \/ InsertUserRefused(s)
    \/ CommitUser(s)
    \/ Login(s)
    \/ Save(s)
    \/ List(s)

Next == \E s \in Sessions : Step(s)

Spec == Init /\ [][Next]_vars

(* Specification SpecFault: one session calling the storage operations one *)
(* after the other, with storage failures                                  *)

FaultSessions == {"s1"}

\* one step of session s in which the store fails
Fault(s) ==
    \/ CallConnectFails(s)
    \/ CallExecuteFails(s)
    \/ InsertConnectFails(s)
    \/ InsertExecuteFails(s)
    \/ CommitFails(s)

NextFault == \E s \in FaultSessions : Step(s) \/ Fault(s)

SpecFault == Init /\ [][NextFault]_vars

----------------------------------------------------------------------------
(* Claims *)

Count(seq, x) == Cardinality({ i \in DOMAIN seq : seq[i] = x })
CountIn(seq, S) == Cardinality({ i \in DOMAIN seq : seq[i] \in S })

ValidInput ==
    /\ length > 8
    /\ num_symbols >= 1
    /\ num_numbers >= 1
    /\ num_symbols + num_numbers < length

\* C1: on valid input (length > 8, num_symbols >= 1, num_numbers >= 1,
\* num_symbols + num_numbers < length), whatever the draws and the shuffle,
\* generate_password returns a string of exactly length characters with
\* exactly num_symbols symbols, num_numbers digits and
\* length - num_symbols - num_numbers letters.
C1_Composition ==
    (gen_pc = "returned" /\ ValidInput) =>
        /\ password.kind = "str"
        /\ Len(password.chars) = length
        /\ CountIn(password.chars, {"!", "_"}) = num_symbols
        /\ CountIn(password.chars, {"7"}) = num_numbers
        /\ CountIn(password.chars, {"a"}) = length - num_symbols - num_numbers

\* a password of two symbols and two digits that the shuffle has mixed
C1_Witness ==
    /\ gen_pc = "returned"
    /\ ValidInput
    /\ num_symbols = 2
    /\ num_numbers = 2
    /\ password.kind = "str"
    /\ password.chars[1] = "7"
    /\ password.chars[2] = "_"
    /\ password.chars[Len(password.chars)] = "!"

\* C2: generate_password returns None whenever length <= 8, num_symbols < 1,
\* num_numbers < 1 or num_symbols + num_numbers >= length; the rejection
\* reported is the one of the first violated precondition in that order, and
\* the four rejections are distinct.
C2_RejectionsInOrder ==
    gen_pc = "returned" =>
        /\ ~ValidInput => password.kind = "None"
        /\ st_error = IF length <= 8 THEN "Password length must be more than 8."
                      ELSE IF num_symbols < 1 THEN "At least one symbol is required."
                      ELSE IF num_numbers < 1 THEN "At least one number is required."
                      ELSE IF num_symbols + num_numbers >= length
                          THEN "Sum of symbols and numbers must be less than length."
                      ELSE NoError
        /\ Cardinality({ErrLength, ErrSymbols, ErrNumbers, ErrSum, NoError}) = 5

\* a call that violates the second and the third precondition (and not the
\* first) and reports the second
C2_Witness ==
    /\ gen_pc = "returned"
    /\ length > 8
    /\ num_symbols < 1
    /\ num_numbers < 1
    /\ password.kind = "None"
    /\ st_error = ErrSymbols

\* the characters of the model by what they are
Letters == {"a", NonAsciiLetter}
AsciiDigits == {"7"}
DecimalDigits == {"7", NonAsciiDigit}

\* C3 as stated: is_strong_password(p) is true iff p has more than 8
\* characters, contains a digit, and contains a character that is neither a
\* letter nor a digit (the underscore counts).  Read in the claim's favour:
\* the digit required is one of 0-9, and a digit of any script is no symbol.
C3_AsStated ==
    strong # "unchecked" =>
        (strong = "truthy" <=>
            /\ Len(reg_password) > 8
            /\ \E i \in DOMAIN reg_password : reg_password[i] \in AsciiDigits
            /\ \E i \in DOMAIN reg_password :
                    reg_password[i] \notin Letters \cup DecimalDigits)

\* C3, amended: what is_strong_password(p) returns is truthy iff p has more
\* than 8 characters, contains one of the digits 0-9, and contains a
\* character that is the underscore or that str.isalnum() rejects (so not a
\* letter, and not a digit or other numeric character of any script).
C3_StrongIff ==
    strong # "unchecked" =>
        (strong = "truthy" <=>
            /\ Len(reg_password) > 8
            /\ \E i \in DOMAIN reg_password : reg_password[i] \in AsciiDigits
            /\ \E i \in DOMAIN reg_password :
                    reg_password[i] \in {"!", "_", Space})

\* nine characters whose only symbol is the underscore: accepted
C3_Witness ==
    /\ strong = "truthy"
    /\ Len(reg_password) = 9
    /\ CountIn(reg_password, {"_"}) = 1
    /\ CountIn(reg_password, {"!", Space}) = 0

\* C10: every password generate_password returns is accepted by
\* is_strong_password: it has more than 8 characters, a digit, and a
\* character is_strong_password counts as a symbol.
C10_GeneratedIsStrong ==
    (gen_pc = "returned" /\ password.kind = "str") =>
        /\ is_strong_password(password.chars)
        /\ Len(password.chars) > 8
        /\ SearchDigitClass(password.chars)
        /\ SearchSymbolClass(password.chars)

\* a generated password whose only symbols are underscores
C10_Witness ==
    /\ gen_pc = "returned"
    /\ password.kind = "str"
    /\ CountIn(password.chars, {"_"}) = num_symbols
    /\ is_strong_password(password.chars)

Returned(s, op) == sess[s].op = op /\ sess[s].pc = "returned"

C4_State ==
    /\ \A u \in Usernames : reg_ok[u] <= 1
    /\ \A r1, r2 \in AllUserRows : r1.username = r2.username => r1 = r2
    /\ \A s \in Sessions :
        (Returned(s, "register_user") /\ sess[s].ret = RetTrue) =>
            \E r \in users : r.username = sess[s].username

C4_Step ==
    \A s \in Sessions :
        (/\ calls' = calls + 1
         /\ sess'[s] # sess[s]
         /\ sess'[s].op = "register_user"
         /\ \E r \in users : r.username = sess'[s].username)
        => (/\ sess'[s].pc = "returned"
            /\ sess'[s].ret = RetFalse
            /\ sess'[s].stmts = 1)

\* C4: in any interleaving of register_user calls for one username at most
\* one returns True and users never holds two rows with that username; a
\* call made after a successful one has committed is rejected by the
\* pre-check (only its SELECT is sent), and of two calls that both pass the
\* pre-check the second INSERT is refused and that call returns False.
C4_OneRegistration == []C4_State /\ [][C4_Step]_vars

\* two calls for one username both passed the pre-check; one returned True,
\* the other had its INSERT refused and returned False
C4_Witness ==
    \E s, t \in Sessions :
        /\ s # t
        /\ sess[s].username = sess[t].username
        /\ Returned(s, "register_user") /\ sess[s].ret = RetTrue
        /\ Returned(t, "register_user") /\ sess[t].ret = RetFalse
        /\ sess[t].stmts = 2

C5_Step ==
    \A s \in Sessions :
        (/\ calls' = calls + 1
         /\ sess'[s] # sess[s]
         /\ sess'[s].op = "verify_login")
        => LET known == { r \in users : r.username = sess'[s].username }
               right == { r \in known :
                          r.password_hash = hash_password(sess'[s].password) }
           IN /\ sess'[s].pc = "returned"
              /\ IF right # {}
                 THEN \E r \in right : sess'[s].ret = RetInt(r.id)
                 ELSE sess'[s].ret = RetNone

\* C5: verify_login(username, plaintext) returns the id of the stored user
\* exactly when a user with that username exists and the hash of the
\* plaintext equals the stored hash; for an unknown username and for a wrong
\* password alike it returns None.
C5_Login == [][C5_Step]_vars

\* one user: a login with the right password has returned the id, one with
\* a wrong password None
C5_Witness ==
    \E s, t \in Sessions :
        /\ Returned(s, "verify_login") /\ sess[s].ret.kind = "int"
        /\ Returned(t, "verify_login") /\ sess[t].ret = RetNone
        /\ sess[s].username = sess[t].username
        /\ sess[s].password # sess[t].password

\* the rows of a user, newest first, rows of one timestamp in insertion order
InsertionOrderedNewestFirst(user_id) ==
    CHOOSE q \in Orders(RowsOf(user_id)) :
        \A i, j \in DOMAIN q : i < j =>
            \/ q[i].created_at > q[j].created_at
            \/ q[i].created_at = q[j].created_at /\ q[i].id < q[j].id

ListStep(s) ==
    /\ calls' = calls + 1
    /\ sess'[s] # sess[s]
    /\ sess'[s].op = "get_saved_passwords"

\* C6 as stated: get_saved_passwords(user_id) returns exactly the entries
\* saved for user_id, newest first, entries of one created_at in insertion
\* order.
C6_AsStated ==
    [][\A s \in Sessions : ListStep(s) =>
        LET q == InsertionOrderedNewestFirst(sess'[s].user_id)
        IN sess'[s].ret = RetList([i \in DOMAIN q |-> Selected(q[i])])]_vars

\* C6, amended: get_saved_passwords(user_id) returns exactly the entries
\* saved for user_id (none of another user's, the empty list when there are
\* none), ordered by created_at descending; the order of entries that share
\* a created_at is not determined.
C6_List ==
    [][\A s \in Sessions : ListStep(s) =>
        LET res == sess'[s].ret.val
            mine == RowsOf(sess'[s].user_id)
        IN /\ sess'[s].pc = "returned"
           /\ sess'[s].ret.kind = "list"
           /\ Len(res) = Cardinality(mine)
           /\ \A r \in mine :
                Count(res, Selected(r))
                    = Cardinality({ m \in mine : Selected(m) = Selected(r) })
           /\ \A i, j \in DOMAIN res : i < j => res[i][3] >= res[j][3]]_vars

\* a list of two entries saved at different seconds, the newer one first
C6_Witness ==
    \E s \in Sessions :
        /\ Returned(s, "get_saved_passwords")
        /\ Len(sess[s].ret.val) = 2
        /\ sess[s].ret.val[1][3] > sess[s].ret.val[2][3]

\* C7: a storage failure at any step of a storage operation is surfaced as
\* a failure value or a report and never leaves the operation as an
\* exception.
C7_NoEscapingException ==
    \A s \in Sessions : sess[s].pc # "raised"

\* C8: every storage operation closes the connection it opened before it
\* returns, on error paths too: when no call is in progress no connection
\* is open.
C8_ConnectionsClosed ==
    (\A s \in Sessions : sess[s].pc \in {"idle", "returned", "raised"})
        => open_conns = 0

\* C9 as stated: each action opens at most one connection and sends at most
\* one query or insert.
C9_AsStated ==
    \A s \in Sessions : sess[s].conns <= 1 /\ sess[s].stmts <= 1

\* C9, amended: login, save and list each open at most one connection and
\* send at most one statement; register opens at most two connections and
\* sends at most two statements (the SELECT of its pre-check on one
\* connection, then the INSERT on another), and exactly two of each
\* whenever it inserts.
C9_RoundTrips ==
    \A s \in Sessions :
        /\ sess[s].op # "register_user" => sess[s].conns <= 1 /\ sess[s].stmts <= 1
        /\ sess[s].op = "register_user" =>
            /\ sess[s].conns <= 2 /\ sess[s].stmts <= 2
            /\ (sess[s].pc = "commit_user" \/ sess[s].ret = RetTrue)
                    => sess[s].conns = 2 /\ sess[s].stmts = 2

\* a registration that inserted, and a login that found its user
C9_Witness ==
    \E s, t \in Sessions :
        /\ Returned(s, "register_user") /\ sess[s].ret = RetTrue
        /\ sess[s].conns = 2 /\ sess[s].stmts = 2
        /\ Returned(t, "verify_login") /\ sess[t].ret.kind = "int"
        /\ sess[t].conns = 1 /\ sess[t].stmts = 1

====
